---- MODULE Spec2Model ----
(***************************************************************************)
(* Model of swingmusic's two reconciliation engines:                       *)
(*   app/lib/home/recentlyadded.py  - folder grouping, folder              *)
(*                                    classification, recency aggregation  *)
(*   app/utils/m3u_importer.py      - playlist parsing, track matching     *)
(***************************************************************************)
EXTENDS Integers, Sequences, FiniteSets, TLC

VARIABLES
    \* ---- recentlyadded.py: get_recent_items ----
    tracks,         \* TrackStore.tracks
    albums,         \* hashes AlbumStore.get_album_by_hash resolves
    artists,        \* hashes ArtistStore.get_artist_by_hash resolves
    limit,          \* get_recent_items' argument
    pc,             \* position inside get_recent_items
    groups,         \* the list group_track_by_folders returned
    gi,             \* index of the group the for loop is at
    recent_items,   \* the accumulator
    origin,         \* per accumulated item: the index of the group it came from
    skipped,        \* how many items the "not in recent_items" test kept out
    \* ---- recentlyadded.py: check_folder_type on one group ----
    group_,         \* the folder group handed to check_folder_type
    cpc,            \* "build" while the group is assembled, "done" after
    cresult,        \* what check_folder_type returned
    \* ---- m3u_importer.py: match_track ----
    entry,          \* the parsed playlist entry
    library,        \* the rows of the tracks table
    mpc,            \* "call" before match_track, "done" after
    mresult,        \* what match_track returned
    \* ---- m3u_importer.py: parse_tracks ----
    doc,            \* m3u_file_string
    chunks,         \* m3u_file_string.split("\n#EXTINF:")
    ci,             \* index of the chunk the for loop is at
    ptracks,        \* the list "tracks" of parse_tracks
    plog,           \* per track of that list: the index of the chunk it came from
    ppc,            \* position inside parse_tracks
    presult         \* what parse_tracks returned

recentVars == <<tracks, albums, artists, limit, pc, groups, gi, recent_items, origin, skipped>>
classifyVars == <<group_, cpc, cresult>>
matchVars == <<entry, library, mpc, mresult>>
parseVars == <<doc, chunks, ci, ptracks, plog, ppc, presult>>
vars == <<recentVars, classifyVars, matchVars, parseVars>>

(***************************************************************************)
(* Bounds and input domains                                                *)
(***************************************************************************)
MaxTracks == 4          \* tracks in TrackStore.tracks
Limits == {0, 1, 7}     \* values of the limit argument (7 is the default)
Folders == {1, 2}       \* folder paths, named by their rank in string order
Timestamps == {1, 2}    \* last_mod values
MaxGroup == 10          \* tracks of the folder handed to check_folder_type
MaxMixed == 6           \* tracks of that folder listed in any order of tagging

\* Python's None
None == [tag |-> "None"]

\* the (albumhash, artist_hashes) pairs tracks of the aggregator model carry;
\* artist_hashes is the "-"-joined string, kept as the list of its parts
Tagging == {[albumhash |-> "a1", artist_hashes |-> <<"x">>],
            [albumhash |-> "a2", artist_hashes |-> <<"y">>]}

\* the pairs the tracks of the single-folder model carry
GroupTagging == {[albumhash |-> "a1", artist_hashes |-> <<"x">>],
                 [albumhash |-> "a2", artist_hashes |-> <<"x", "y">>],
                 [albumhash |-> "a2", artist_hashes |-> <<"y">>]}

Track(i, f, tg, lm) ==
    [id |-> i, folder |-> f, albumhash |-> tg.albumhash,
     artist_hashes |-> tg.artist_hashes, last_mod |-> lm, created_date |-> lm]

(***************************************************************************)
(* Python built-ins                                                        *)
(***************************************************************************)
Range(s) == {s[i] : i \in 1..Len(s)}

\* list(...): the elements of a comprehension, evaluated once
list(f) == f \o <<>>

\* list.count
Count(items, x) == Cardinality({i \in 1..Len(items) : items[i] = x})

\* sorted(seq, key=...): stable; keys[i] is the key of seq[i]
Sorted(seq, keys) ==
    LET n == Len(seq)
        rank == list([i \in 1..n |->
                    1 + Cardinality({j \in 1..n : \/ keys[j] < keys[i]
                                                  \/ keys[j] = keys[i] /\ j < i})])
    IN  list([p \in 1..n |-> seq[CHOOSE i \in 1..n : rank[i] = p]])

\* sorted(seq, key=..., reverse=True): descending, equal keys keep their order
SortedReverse(seq, keys) ==
    LET n == Len(seq)
        rank == list([i \in 1..n |->
                    1 + Cardinality({j \in 1..n : \/ keys[j] > keys[i]
                                                  \/ keys[j] = keys[i] /\ j < i})])
    IN  list([p \in 1..n |-> seq[CHOOSE i \in 1..n : rank[i] = p]])

\* itertools.groupby(seq, key): the runs of adjacent elements with equal keys
GroupBy(seq, keys) ==
    LET n == Len(seq)
        starts == {i \in 1..n : i = 1 \/ keys[i] # keys[i - 1]}
        nth(k) == CHOOSE s \in starts : Cardinality({t \in starts : t <= s}) = k
        stop(s) == IF \E t \in starts : t > s
                   THEN (CHOOSE t \in starts : t > s /\ \A u \in starts : u > s => t <= u) - 1
                   ELSE n
    IN  list([k \in 1..Cardinality(starts) |->
            [key |-> keys[nth(k)], run |-> SubSeq(seq, nth(k), stop(nth(k)))]])

\* "-".join(parts).split("-") over the lists of parts: their concatenation
RECURSIVE Flatten(_)
Flatten(ss) == IF ss = <<>> THEN <<>> ELSE Head(ss) \o Flatten(Tail(ss))

(***************************************************************************)
(* External collaborators                                                  *)
(***************************************************************************)
\* app.utils.dates.timestamp_to_time_passed: a coarse "time ago" rendering
timestamp_to_time_passed(t) == [ago |-> (4 - t) \div 2]

\* app.serializers.track.serialize_track(t, to_remove={"created_date"})
serialize_track(t) == [f \in DOMAIN t \ {"created_date"} |-> t[f]]

(***************************************************************************)
(* recentlyadded.py                                                        *)
(***************************************************************************)
ThresholdNum == 7
ThresholdDen == 10
TrackFolderMax == 3

\* max(items, key=items.count): the first item whose count is maximal
MostCommon(items) ==
    LET cnt == list([i \in 1..Len(items) |-> Count(items, items[i])])
        best == CHOOSE i \in 1..Len(items) :
                    /\ \A j \in 1..Len(items) : cnt[j] <= cnt[i]
                    /\ \A j \in 1..(i - 1) : cnt[j] < cnt[i]
    IN  items[best]

\* calc_based_on_percent with > for >=
calc_based_on_percent_Strict(items, total) ==
    LET most_common == MostCommon(items)
        most_common_count == Count(items, most_common)
    IN  [ok |-> most_common_count * ThresholdDen > ThresholdNum * total,
         most_common |-> most_common,
         count |-> most_common_count]

\* most_common_count / total >= 0.7
calc_based_on_percent(items, total) ==
    LET most_common == MostCommon(items)
        most_common_count == Count(items, most_common)
    IN  [ok |-> most_common_count * ThresholdDen >= ThresholdNum * total,
         most_common |-> most_common,
         count |-> most_common_count]

check_is_album_folder(ts) ==
    calc_based_on_percent(list([i \in 1..Len(ts) |-> ts[i].albumhash]), Len(ts))

check_is_artist_folder(ts) ==
    calc_based_on_percent(Flatten(list([i \in 1..Len(ts) |-> ts[i].artist_hashes])), Len(ts))

create_track(t) ==
    [type |-> "track", item |-> [track |-> serialize_track(t), help_text |-> "NEW TRACK"]]

\* check_is_track_folder with > for >=
check_is_track_folder_OffByOne(ts) ==
    IF Len(ts) > TrackFolderMax
    THEN [tag |-> "False"]
    ELSE [tag |-> "list", value |-> list([i \in 1..Len(ts) |-> create_track(ts[i])])]

\* False when the folder has 3 tracks or more, else the list of track entries
check_is_track_folder(ts) ==
    IF Len(ts) >= TrackFolderMax
    THEN [tag |-> "False"]
    ELSE [tag |-> "list", value |-> list([i \in 1..Len(ts) |-> create_track(ts[i])])]

check_is_new_artist(store, artisthash, timestamp) ==
    ~ \E i \in 1..Len(store) :
        store[i].last_mod < timestamp /\ artisthash \in Range(store[i].artist_hashes)

check_is_new_album(store, albumhash, timestamp) ==
    ~ \E i \in 1..Len(store) :
        store[i].last_mod < timestamp /\ store[i].albumhash = albumhash

Dict(v) == [tag |-> "dict", value |-> v]

AlbumEntry(store, g, albumhash) ==
    Dict([type |-> "album",
          item |-> [album |-> albumhash,
                    help_text |-> IF check_is_new_album(store, albumhash, g.time)
                                  THEN "NEW ALBUM" ELSE "NEW TRACKS",
                    time |-> timestamp_to_time_passed(g.time)]])

ArtistEntry(store, g, artisthash, trackcount) ==
    Dict([type |-> "artist",
          item |-> [artist |-> artisthash,
                    trackcount |-> trackcount,
                    help_text |-> IF check_is_new_artist(store, artisthash, g.time)
                                  THEN "NEW ARTIST" ELSE "NEW MUSIC",
                    time |-> timestamp_to_time_passed(g.time)]])

FolderEntry(g) ==
    Dict([type |-> "folder",
          item |-> [path |-> g.folder, count |-> Len(g.tracks),
                    help_text |-> "NEW MUSIC",
                    time |-> timestamp_to_time_passed(g.time)]])

SingleTrackEntry(g) ==
    LET e == create_track(g.tracks[1])
    IN  Dict([type |-> e.type,
              item |-> [track |-> e.item.track, help_text |-> e.item.help_text,
                        time |-> timestamp_to_time_passed(g.time)]])

\* store, albumStore, artistStore: TrackStore.tracks, AlbumStore, ArtistStore
check_folder_type(g, store, albumStore, artistStore) ==
    LET al == check_is_album_folder(g.tracks)
        ar == check_is_artist_folder(g.tracks)
        tf == check_is_track_folder(g.tracks)
    IN  IF Len(g.tracks) = 1 THEN SingleTrackEntry(g)
        ELSE IF al.ok
        THEN IF al.most_common \notin albumStore THEN None
             ELSE AlbumEntry(store, g, al.most_common)
        ELSE IF ar.ok
        THEN IF ar.most_common \notin artistStore THEN None
             ELSE ArtistEntry(store, g, ar.most_common, ar.count)
        ELSE IF tf.tag = "list" THEN tf
        ELSE FolderEntry(g)

\* group_track_by_folders without the sort by folder ahead of groupby
group_track_by_folders_Unsorted(ts) ==
    LET runs == GroupBy(ts, list([i \in 1..Len(ts) |-> ts[i].folder]))
        newestFirst == list([k \in 1..Len(runs) |->
                          [folder |-> runs[k].key,
                           tracks |-> SortedReverse(runs[k].run,
                                        list([i \in 1..Len(runs[k].run) |-> runs[k].run[i].last_mod]))]])
        gs == list([k \in 1..Len(runs) |->
                 [folder |-> newestFirst[k].folder,
                  tracks |-> newestFirst[k].tracks,
                  time |-> newestFirst[k].tracks[1].last_mod]])
    IN  SortedReverse(gs, list([k \in 1..Len(gs) |-> gs[k].time]))

group_track_by_folders(ts) ==
    LET byFolder == Sorted(ts, list([i \in 1..Len(ts) |-> ts[i].folder]))
        runs == GroupBy(byFolder, list([i \in 1..Len(byFolder) |-> byFolder[i].folder]))
        newestFirst == list([k \in 1..Len(runs) |->
                          [folder |-> runs[k].key,
                           tracks |-> SortedReverse(runs[k].run,
                                        list([i \in 1..Len(runs[k].run) |-> runs[k].run[i].last_mod]))]])
        gs == list([k \in 1..Len(runs) |->
                 [folder |-> newestFirst[k].folder,
                  tracks |-> newestFirst[k].tracks,
                  time |-> newestFirst[k].tracks[1].last_mod]])
    IN  SortedReverse(gs, list([k \in 1..Len(gs) |-> gs[k].time]))

\* get_recent_items without the membership test
NotInRecent_Always(item, acc) == TRUE

\* item not in recent_items (line 203): a list or None never equals an entry
NotInRecent(item, acc) ==
    IF item.tag = "dict" THEN item.value \notin Range(acc) ELSE TRUE

ClassifyIdle == group_ = <<>> /\ cpc = "off" /\ cresult = None
MatchIdle == entry = <<>> /\ library = <<>> /\ mpc = "off" /\ mresult = None
ParseIdle ==
    /\ doc = <<>> /\ chunks = <<>> /\ ci = 0 /\ ptracks = <<>> /\ plog = <<>>
    /\ ppc = "off" /\ presult = None

\* ---- get_recent_items, one action per step of its body ----
RecentIdle ==
    /\ tracks = <<>> /\ albums = {} /\ artists = {} /\ limit = 0 /\ pc = "off"
    /\ groups = <<>> /\ gi = 0 /\ recent_items = <<>> /\ origin = <<>> /\ skipped = 0

RecentInit ==
    /\ tracks = <<>>
    /\ albums = {"a2"}          \* album a1 has no record in AlbumStore
    /\ artists = {"x", "y"}
    /\ limit = 0
    /\ pc = "idle"
    /\ groups = <<>>
    /\ gi = 0
    /\ recent_items = <<>>
    /\ origin = <<>>
    /\ skipped = 0

\* the indexer (not part of these files) adds a track to TrackStore.tracks;
\* track i of the list is the record with id i
AddTrack ==
    /\ pc = "idle"
    /\ Len(tracks) < MaxTracks
    /\ \E f \in Folders, tg \in Tagging, lm \in Timestamps :
          tracks' = Append(tracks, Track(Len(tracks) + 1, f, tg, lm))
    /\ UNCHANGED <<albums, artists, limit, pc, groups, gi, recent_items, origin, skipped>>
    /\ UNCHANGED <<classifyVars, matchVars, parseVars>>

\* get_recent_items(limit), lines 194-198
GetRecentItemsStart ==
    /\ pc = "idle"
    /\ limit' \in Limits
    /\ groups' = group_track_by_folders(
                    Sorted(tracks, list([i \in 1..Len(tracks) |-> tracks[i].created_date])))
    /\ gi' = 1
    /\ pc' = "loop"
    /\ UNCHANGED <<tracks, albums, artists, recent_items, origin, skipped>>
    /\ UNCHANGED <<classifyVars, matchVars, parseVars>>

\* lines 200-216: one iteration of the for loop; a break goes on to the return
GetRecentItemsStep ==
    /\ pc = "loop"
    /\ gi <= Len(groups)
    /\ LET item == check_folder_type(groups[gi], tracks, albums, artists)
           notIn == NotInRecent(item, recent_items)
           new == IF item.tag = "dict" THEN <<item.value>> ELSE item.value
       IN  IF notIn /\ item = None
           THEN \* continue
                /\ gi' = gi + 1
                /\ UNCHANGED <<pc, recent_items, origin, skipped>>
           ELSE /\ recent_items' = IF notIn THEN recent_items \o new ELSE recent_items
                /\ origin' = IF notIn THEN origin \o list([k \in 1..Len(new) |-> gi]) ELSE origin
                /\ skipped' = IF notIn THEN skipped ELSE skipped + 1
                /\ IF Len(recent_items') >= limit
                   THEN pc' = "done" /\ gi' = gi
                   ELSE pc' = pc /\ gi' = gi + 1
    /\ UNCHANGED <<tracks, albums, artists, limit, groups>>
    /\ UNCHANGED <<classifyVars, matchVars, parseVars>>

\* line 216, reached by the loop running out of groups
GetRecentItemsReturn ==
    /\ pc = "loop"
    /\ gi > Len(groups)
    /\ pc' = "done"
    /\ UNCHANGED <<tracks, albums, artists, limit, groups, gi, recent_items, origin, skipped>>
    /\ UNCHANGED <<classifyVars, matchVars, parseVars>>

RecentNext ==
    \/ AddTrack
    \/ GetRecentItemsStart
    \/ GetRecentItemsStep
    \/ GetRecentItemsReturn

InitRecent == RecentInit /\ ClassifyIdle /\ MatchIdle /\ ParseIdle

SpecRecent == InitRecent /\ [][RecentNext]_vars

\* ---- check_folder_type on the group of one folder ----
ClassifyInit ==
    /\ tracks = <<>>
    /\ albums = {"a1"}          \* album a2 has no record in AlbumStore
    /\ artists = {"x"}          \* artist y has no record in ArtistStore
    /\ limit = 0 /\ pc = "off" /\ groups = <<>> /\ gi = 0
    /\ recent_items = <<>> /\ origin = <<>> /\ skipped = 0
    /\ group_ = <<>>
    /\ cpc = "build"
    /\ cresult = None

\* the indexer adds a track of the folder to TrackStore.tracks; past the
\* first MaxMixed tracks the folder lists tracks of equal tagging in a row
AddFolderTrack ==
    /\ cpc = "build"
    /\ Len(tracks) < MaxGroup
    /\ \E tg \in GroupTagging :
          /\ IF Len(tracks) < MaxMixed THEN TRUE
             ELSE \/ /\ tg.albumhash = tracks[Len(tracks)].albumhash
                     /\ tg.artist_hashes = tracks[Len(tracks)].artist_hashes
                  \/ \A i \in 1..Len(tracks) :
                         \/ tg.albumhash # tracks[i].albumhash
                         \/ tg.artist_hashes # tracks[i].artist_hashes
          /\ tracks' = Append(tracks, Track(Len(tracks) + 1, 1, tg, 1))
    /\ UNCHANGED <<albums, artists, limit, pc, groups, gi, recent_items, origin, skipped>>
    /\ UNCHANGED <<classifyVars, matchVars, parseVars>>

\* check_folder_type(group), lines 90-164, on the folder's group
CheckFolderType ==
    /\ cpc = "build"
    /\ tracks # <<>>
    /\ group_' = group_track_by_folders(tracks)[1]
    /\ cresult' = check_folder_type(group_', tracks, albums, artists)
    /\ cpc' = "done"
    /\ UNCHANGED <<recentVars, matchVars, parseVars>>

ClassifyNext ==
    \/ AddFolderTrack
    \/ CheckFolderType

InitClassify == ClassifyInit /\ MatchIdle /\ ParseIdle

SpecClassify == InitClassify /\ [][ClassifyNext]_vars

(***************************************************************************)
(* Strings: a string is the sequence of its characters                     *)
(***************************************************************************)
\* s[i:].startswith(pat), i counted from 1
StartsAt(s, pat, i) ==
    /\ i >= 1
    /\ i + Len(pat) - 1 <= Len(s)
    /\ SubSeq(s, i, i + Len(pat) - 1) = pat

\* s.find(pat), counted from 1; 0 when pat does not occur
Find(s, pat) ==
    IF \E i \in 1..Len(s) : StartsAt(s, pat, i)
    THEN CHOOSE i \in 1..Len(s) :
            StartsAt(s, pat, i) /\ \A j \in 1..(i - 1) : ~StartsAt(s, pat, j)
    ELSE 0

\* pat in s
Contains(s, pat) == Find(s, pat) # 0

\* s.split(sep)
RECURSIVE Split(_, _)
Split(s, sep) ==
    IF Find(s, sep) = 0 THEN <<s>>
    ELSE <<SubSeq(s, 1, Find(s, sep) - 1)>>
            \o Split(SubSeq(s, Find(s, sep) + Len(sep), Len(s)), sep)

\* s.lower() on the letters the model uses
LowerChar(c) ==
    CASE c = "A" -> "a" [] c = "B" -> "b" [] OTHER -> c

lower(s) == list([i \in 1..Len(s) |-> LowerChar(s[i])])

Digits == {"0", "1", "2", "3", "4", "5", "6", "7", "8", "9"}

DigitValue(c) ==
    CASE c = "0" -> 0 [] c = "1" -> 1 [] c = "2" -> 2 [] c = "3" -> 3 [] c = "4" -> 4
      [] c = "5" -> 5 [] c = "6" -> 6 [] c = "7" -> 7 [] c = "8" -> 8 [] c = "9" -> 9

\* int(s) of a string of digits
RECURSIVE int(_)
int(s) ==
    IF s = <<>> THEN 0
    ELSE 10 * int(SubSeq(s, 1, Len(s) - 1)) + DigitValue(s[Len(s)])

\* abs
abs(n) == IF n < 0 THEN -n ELSE n

\* os.path.splitext(name)[0]: name up to its last dot, a leading dot apart
splitext0(name) ==
    LET dots == {i \in 2..Len(name) : name[i] = "."}
    IN  IF dots = {} THEN name
        ELSE SubSeq(name, 1, (CHOOSE i \in dots : \A j \in dots : j <= i) - 1)

\* app.utils.filesystem.get_path_depth: the components of a path
get_path_depth(path) == Split(path, <<"/">>)

(***************************************************************************)
(* m3u_importer.py: match_track                                            *)
(***************************************************************************)
DurationTolerance == 10

\* SQLiteTrackMethods.get_tracks_by_filename: the rows with that file name
get_tracks_by_filename(lib, file_name) ==
    SelectSeq(lib, LAMBDA r : r.filename = file_name)

\* SQLiteTrackMethods.get_tracks_by_title: the rows with that title
get_tracks_by_title(lib, title) ==
    SelectSeq(lib, LAMBDA r : r.title = title)

\* track['artist'].lower() in [artist.name.lower() for artist in result.artists]
ArtistMatches(track, result) ==
    \E k \in 1..Len(result.artists) : lower(track.artist) = lower(result.artists[k])

\* abs(int(track['duration']) - int(result.duration)) <= 10
DurationMatches(track, result) ==
    abs(int(track.duration) - result.duration) <= DurationTolerance

\* the (matched, result) pair of match_track_filename
match_track_filename(track, lib) ==
    IF "file_path" \notin DOMAIN track
    THEN [matched |-> FALSE, result |-> None]
    ELSE LET parts == get_path_depth(track.file_path)
             file_name == splitext0(parts[Len(parts)])
             found == get_tracks_by_filename(lib, file_name)
             hits == {i \in 1..Len(found) :
                        ArtistMatches(track, found[i]) /\ DurationMatches(track, found[i])}
             filter_results == SelectSeq(found, LAMBDA r : ArtistMatches(track, r))
         IN  IF hits # {}
             THEN [matched |-> TRUE,
                   result |-> [tag |-> "track",
                               value |-> found[CHOOSE i \in hits : \A j \in hits : i <= j]]]
             ELSE [matched |-> FALSE,
                   result |-> [tag |-> "list", value |-> filter_results]]

match_track(track, lib) ==
    LET byName == match_track_filename(track, lib)
        result_track == byName.result
        found == get_tracks_by_title(lib, track.title)
        hits == {i \in 1..Len(found) : ArtistMatches(track, found[i])}
        result == found[CHOOSE i \in hits : \A j \in hits : i <= j]
    IN  IF byName.matched THEN result_track
        ELSE IF hits = {} THEN None
        ELSE IF DurationMatches(track, result) THEN result_track
        ELSE None

\* ---- input domains ----
MaxLibrary == 2         \* rows of the tracks table

FileNames == {<<"s", "1">>, <<"s", "2">>}
Titles == {"T1", "T2"}
ArtistLists == {<<(<<"A", "b">>)>>, <<(<<"B", "o">>)>>, <<(<<"B", "o">>), (<<"a", "B">>)>>}
RowDurations == {100, 110, 111}
FilePaths == {<<"d", "/", "s", "1", ".", "m", "p", "3">>, <<"s", "2", ".", "x">>}
EntryArtists == {<<"a", "b">>, <<"A", "B">>}

Entries ==
    LET base == {[duration |-> <<"1", "0", "0">>, artist |-> a, title |-> "T1",
                  file_exists |-> FALSE] : a \in EntryArtists}
    IN  base \cup {[duration |-> e.duration, artist |-> e.artist, title |-> e.title,
                    file_exists |-> e.file_exists, file_path |-> fp] :
                       e \in base, fp \in FilePaths}

MatchInit ==
    /\ entry = <<>>
    /\ library = <<>>
    /\ mpc = "call"
    /\ mresult = None

\* the indexer adds a row to the tracks table
AddRow ==
    /\ mpc = "call"
    /\ Len(library) < MaxLibrary
    /\ \E f \in FileNames, t \in Titles, as \in ArtistLists, d \in RowDurations :
          library' = Append(library,
                        [id |-> Len(library) + 1, filename |-> f, title |-> t,
                         artists |-> as, duration |-> d])
    /\ UNCHANGED <<entry, mpc, mresult>>
    /\ UNCHANGED <<recentVars, classifyVars, parseVars>>

\* match_track(track), lines 81-102
MatchTrack ==
    /\ mpc = "call"
    /\ entry' \in Entries
    /\ mresult' = match_track(entry', library)
    /\ mpc' = "done"
    /\ UNCHANGED library
    /\ UNCHANGED <<recentVars, classifyVars, parseVars>>

MatchNext ==
    \/ AddRow
    \/ MatchTrack

InitMatch == RecentIdle /\ ClassifyIdle /\ MatchInit /\ ParseIdle

SpecMatch == InitMatch /\ [][MatchNext]_vars

(***************************************************************************)
(* m3u_importer.py: parse_tracks                                           *)
(***************************************************************************)
NL == "\n"
EXTM3U == <<"#", "E", "X", "T", "M", "3", "U">>
EXTINF == <<NL, "#", "E", "X", "T", "I", "N", "F", ":">>
Dash == <<" ", "-", " ">>

\* how many characters of s, from the first on, are digits: what \d+ takes
DigitPrefix(s) ==
    CHOOSE n \in 0..Len(s) :
        /\ \A i \in 1..n : s[i] \in Digits
        /\ n < Len(s) => s[n + 1] \notin Digits

\* the last index of the run of non-newline characters that starts at i
LineEnd(s, i) ==
    CHOOSE e \in i..Len(s) :
        /\ \A j \in i..e : s[j] # NL
        /\ e < Len(s) => s[e + 1] = NL

\* re.match of  (\d+),(.+?) - (.+)\n(.+)  when withPath, of
\* (\d+),(.+?) - (.+)  otherwise, at the start of line.  \d+ takes every
\* leading digit, the lazy (.+?) ends at the first place from which the rest
\* matches, (.+) runs to the end of its line.  The ends of the artist group
\* from which the rest of the pattern matches:
ArtistEnds(line, withPath) ==
    LET n == DigitPrefix(line)
    IN  IF n = 0 \/ n + 1 > Len(line) \/ line[n + 1] # ","
        THEN {}
        ELSE {e \in (n + 2)..Len(line) :
                /\ \A j \in (n + 2)..e : line[j] # NL
                /\ StartsAt(line, Dash, e + 1)
                /\ e + 4 <= Len(line)
                /\ line[e + 4] # NL
                /\ withPath =>
                     LET t == LineEnd(line, e + 4)
                     IN  t + 2 <= Len(line) /\ line[t + 2] # NL}

Matches(line, withPath) == ArtistEnds(line, withPath) # {}

\* the groups of the match
Groups(line, withPath) ==
    LET n == DigitPrefix(line)
        ends == ArtistEnds(line, withPath)
        e == CHOOSE x \in ends : \A y \in ends : x <= y
        t == LineEnd(line, e + 4)
        named == [duration |-> SubSeq(line, 1, n),
                  artist |-> SubSeq(line, n + 2, e),
                  title |-> SubSeq(line, e + 4, t)]
    IN  IF withPath
        THEN [duration |-> named.duration, artist |-> named.artist, title |-> named.title,
              file_path |-> SubSeq(line, t + 2, LineEnd(line, t + 2))]
        ELSE named

\* lines 36-51: the track built from a match; only match.group('file_path')
\* can raise, when the pattern has no such group
TrackOf(g) ==
    IF "file_path" \in DOMAIN g
    THEN [duration |-> g.duration, artist |-> g.artist, title |-> g.title,
          file_path |-> g.file_path, file_exists |-> FALSE]
    ELSE [duration |-> g.duration, artist |-> g.artist, title |-> g.title,
          file_exists |-> FALSE]

\* default_patterns with the fallback pattern first
default_patterns_Swapped == <<FALSE, TRUE>>

\* default_patterns, in order: TRUE is the pattern with the file path line
default_patterns == <<TRUE, FALSE>>

\* lines 18-54: what one chunk adds to tracks, <<>> or one track
ParseLine(line) ==
    LET hits == {k \in 1..Len(default_patterns) : Matches(line, default_patterns[k])}
        first == CHOOSE k \in hits : \A j \in hits : k <= j
    IN  IF Contains(line, EXTM3U) THEN <<>>
        ELSE IF hits = {} THEN <<>>
        ELSE <<TrackOf(Groups(line, default_patterns[first]))>>

\* ---- input domains ----
MaxChunks == 3          \* pieces joined by "\n#EXTINF:" in the document

Pieces ==
    { EXTM3U,                                                   \* #EXTM3U
      <<"4", "1", ",", "A", " ", "-", " ", "T", NL, "p">>,      \* 41,A - T / p
      <<"4", ",", "A", " ", "-", " ", "T">>,                    \* 4,A - T
      <<"4", ",", "A", " ", "-", " ", "T", NL>>,                \* 4,A - T /
      <<"A", " ", "-", " ", "T", NL, "p">>,                     \* A - T / p
      <<"4", ",", "A", " ", "-", " ", "B", " ", "-", " ", "T", NL, "p", NL, "q">>,
      <<"4", ",", " ", "-", " ", "-", " ", "T">>,               \* 4, - - T
      <<"4", ",", "A", NL, " ", "-", " ", "T">>,                \* 4,A / - T
      <<"4", ",", "A", " ", "-", " ", "#", "E", "X", "T", "M", "3", "U">> }

ParseInit ==
    /\ doc \in Pieces \cup {<<>>}
    /\ chunks = <<>>
    /\ ci = 0
    /\ ptracks = <<>>
    /\ plog = <<>>
    /\ ppc = "input"
    /\ presult = None

\* the playlist's writer appends an entry to the document
AddPiece ==
    /\ ppc = "input"
    /\ Len(Split(doc, EXTINF)) < MaxChunks
    /\ \E piece \in Pieces : doc' = doc \o EXTINF \o piece
    /\ UNCHANGED <<chunks, ci, ptracks, plog, ppc, presult>>
    /\ UNCHANGED <<recentVars, classifyVars, matchVars>>

\* parse_tracks(m3u_file_string), lines 14-15
ParseTracksStart ==
    /\ ppc = "input"
    /\ chunks' = Split(doc, EXTINF)
    /\ ci' = 1
    /\ ppc' = "loop"
    /\ UNCHANGED <<doc, ptracks, plog, presult>>
    /\ UNCHANGED <<recentVars, classifyVars, matchVars>>

\* lines 15-54: one iteration of the outer for loop
ParseTracksLine ==
    /\ ppc = "loop"
    /\ ci <= Len(chunks)
    /\ ptracks' = ptracks \o ParseLine(chunks[ci])
    /\ plog' = IF ParseLine(chunks[ci]) = <<>> THEN plog ELSE Append(plog, ci)
    /\ ci' = ci + 1
    /\ UNCHANGED <<doc, chunks, ppc, presult>>
    /\ UNCHANGED <<recentVars, classifyVars, matchVars>>

\* line 56
ParseTracksReturn ==
    /\ ppc = "loop"
    /\ ci > Len(chunks)
    /\ presult' = IF ptracks # <<>> THEN [tag |-> "list", value |-> ptracks] ELSE None
    /\ ppc' = "done"
    /\ UNCHANGED <<doc, chunks, ci, ptracks, plog>>
    /\ UNCHANGED <<recentVars, classifyVars, matchVars>>

ParseNext ==
    \/ AddPiece
    \/ ParseTracksStart
    \/ ParseTracksLine
    \/ ParseTracksReturn

InitParse == RecentIdle /\ ClassifyIdle /\ MatchIdle /\ ParseInit

SpecParse == InitParse /\ [][ParseNext]_vars

(***************************************************************************)
(* Claims about get_recent_items and group_track_by_folders (SpecRecent)   *)
(***************************************************************************)
\* C1: the list get_recent_items returns has at most `limit` items.
C1_AtMostLimit == pc = "done" => Len(recent_items) <= limit

\* C2: get_recent_items returns the empty list on an empty track collection
\* and whenever limit = 0.
C2_EmptyOnEmptyOrZeroLimit ==
    pc = "done" /\ (tracks = <<>> \/ limit = 0) => recent_items = <<>>

\* C7: the returned list holds no two items that are equal by value.
C7_NoDuplicates ==
    pc = "done" =>
        \A i, j \in 1..Len(recent_items) : i # j => recent_items[i] # recent_items[j]

\* a run in which a later group produced an item already in the accumulator
C7_Witness == pc = "done" /\ skipped > 0 /\ Len(groups) = 2 /\ Len(recent_items) = 1

\* C9: group_track_by_folders partitions its input by folder, each group's
\* time is the largest last_mod of its tracks, and the groups come in
\* non-increasing order of time.
C9_GroupsPartition ==
    pc = "loop" /\ gi = 1 =>
        /\ \A i \in 1..Len(tracks) :
              Cardinality({<<k, j>> \in (1..Len(groups)) \X (1..Len(tracks)) :
                              j <= Len(groups[k].tracks) /\ groups[k].tracks[j] = tracks[i]}) = 1
        /\ \A k \in 1..Len(groups) :
              /\ groups[k].tracks # <<>>
              /\ Range(groups[k].tracks) \subseteq Range(tracks)
              /\ \A j \in 1..Len(groups[k].tracks) :
                    /\ groups[k].tracks[j].folder = groups[k].folder
                    /\ groups[k].tracks[j].last_mod <= groups[k].time
              /\ \E j \in 1..Len(groups[k].tracks) :
                    groups[k].tracks[j].last_mod = groups[k].time
        /\ \A k, l \in 1..Len(groups) : k # l => groups[k].folder # groups[l].folder
        /\ \A k \in 1..(Len(groups) - 1) : groups[k].time >= groups[k + 1].time

\* two folders interleaved in the input, the first group strictly newer, and a
\* group whose tracks differ in last_mod
C9_Witness ==
    /\ pc = "loop"
    /\ Len(tracks) = 4
    /\ tracks[1].folder = 2 /\ tracks[2].folder = 1 /\ tracks[3].folder = 2
    /\ Len(groups) = 2
    /\ groups[1].time > groups[2].time
    /\ \E j \in 1..Len(groups[1].tracks) : groups[1].tracks[j].last_mod < groups[1].time

\* C10: an Album result all of whose album's index tracks lie in the classified
\* group is labelled "NEW ALBUM".
C10_NewAlbumOnFirstAppearance ==
    pc = "done" =>
        \A k \in 1..Len(recent_items) :
            (/\ recent_items[k].type = "album"
             /\ \A i \in 1..Len(tracks) :
                   tracks[i].albumhash = recent_items[k].item.album
                       => tracks[i] \in Range(groups[origin[k]].tracks))
            => recent_items[k].item.help_text = "NEW ALBUM"


(***************************************************************************)
(* Claims about check_folder_type (SpecClassify)                           *)
(***************************************************************************)
\* the largest number of times one value occurs in items
TopCount(items) ==
    LET cnt == [x \in Range(items) |-> Count(items, x)]
    IN  CHOOSE n \in 0..Len(items) :
            /\ \A x \in Range(items) : cnt[x] <= n
            /\ items # <<>> => \E x \in Range(items) : cnt[x] = n

GroupAlbums == list([i \in 1..Len(group_.tracks) |-> group_.tracks[i].albumhash])
GroupArtists ==
    Flatten(list([i \in 1..Len(group_.tracks) |-> group_.tracks[i].artist_hashes]))

\* the most frequent album hash(es) of the group resolve in AlbumStore
TopAlbumResolves ==
    \A x \in Range(GroupAlbums) :
        Count(GroupAlbums, x) = TopCount(GroupAlbums) => x \in albums

IsAlbumResult == cresult.tag = "dict" /\ cresult.value.type = "album"

AlbumRule ==
    /\ TopAlbumResolves /\ 10 * TopCount(GroupAlbums) >= 7 * Len(group_.tracks)
           => IsAlbumResult
    /\ 10 * TopCount(GroupAlbums) < 7 * Len(group_.tracks) => ~IsAlbumResult

C6_FolderOrTracks ==
    cpc = "done"
    /\ 10 * TopCount(GroupAlbums) < 7 * Len(group_.tracks)
    /\ 10 * TopCount(GroupArtists) < 7 * Len(group_.tracks)
    => IF Len(group_.tracks) >= 3
       THEN /\ cresult.tag = "dict"
            /\ cresult.value.type = "folder"
            /\ cresult.value.item.path = group_.folder
            /\ cresult.value.item.count = Len(group_.tracks)
       ELSE /\ cresult.tag = "list"
            /\ Len(cresult.value) = Len(group_.tracks)
            /\ \A i \in 1..Len(group_.tracks) :
                  /\ cresult.value[i].type = "track"
                  /\ cresult.value[i].item.track.id = group_.tracks[i].id

\* a folder of exactly 3 tracks with neither majority: a Folder result
C6_Witness ==
    /\ cpc = "done"
    /\ Len(group_.tracks) = 3
    /\ 10 * TopCount(GroupAlbums) < 7 * Len(group_.tracks)
    /\ 10 * TopCount(GroupArtists) < 7 * Len(group_.tracks)
    /\ cresult.tag = "dict" /\ cresult.value.type = "folder"


(***************************************************************************)
(* Claims about match_track (SpecMatch)                                    *)
(***************************************************************************)
\* the filename stage confirmed a row
FilenameConfirmed ==
    /\ "file_path" \in DOMAIN entry
    /\ \E i \in 1..Len(library) :
          /\ library[i].filename = splitext0(get_path_depth(entry.file_path)[
                                        Len(get_path_depth(entry.file_path))])
          /\ ArtistMatches(entry, library[i])
          /\ DurationMatches(entry, library[i])

\* the rows the title stage decides on: title equal, artist matching
TitleHits ==
    {i \in 1..Len(library) :
        library[i].title = entry.title /\ ArtistMatches(entry, library[i])}

FirstTitleHit == library[CHOOSE i \in TitleHits : \A j \in TitleHits : i <= j]

\* C3: with no confirmed filename match, if the first title-lookup track with
\* a matching artist is within 10 seconds, match_track returns that track.
C3_TitleStageReturnsTrack ==
    mpc = "done" /\ ~FilenameConfirmed /\ TitleHits # {}
        /\ DurationMatches(entry, FirstTitleHit)
    => mresult = [tag |-> "track", value |-> FirstTitleHit]

\* C4: match_track returns "no match" or one library track passing the artist
\* and duration gate; the filename stage's list of rejects is never returned.
C4_TrackOrNoMatch ==
    mpc = "done" =>
        \/ mresult = None
        \/ /\ mresult.tag = "track"
           /\ \E i \in 1..Len(library) : mresult.value = library[i]
           /\ ArtistMatches(entry, mresult.value)
           /\ DurationMatches(entry, mresult.value)


(***************************************************************************)
(* Claims about parse_tracks (SpecParse)                                   *)
(***************************************************************************)
\* C8: parse_tracks drops the chunk holding the #EXTM3U header and yields, in
\* document order, at most one entry per other chunk: the entry of the first
\* matching pattern (file-path pattern first), with duration, artist and
\* title, file_exists = false, and file_path only from the file-path pattern;
\* a chunk matching no pattern yields nothing, and with no entry at all the
\* result is None.
C8_ParseTracks ==
    ppc = "done" =>
        /\ Len(plog) = Len(ptracks)
        /\ \A k \in 1..Len(ptracks) :
              LET line == chunks[plog[k]]
                  t == ptracks[k]
              IN  /\ ~Contains(line, EXTM3U)
                  /\ k > 1 => plog[k - 1] < plog[k]
                  /\ {"duration", "artist", "title", "file_exists"} \subseteq DOMAIN t
                  /\ t.file_exists = FALSE
                  /\ ("file_path" \in DOMAIN t) = Matches(line, TRUE)
                  /\ IF Matches(line, TRUE)
                     THEN /\ t.duration = Groups(line, TRUE).duration
                          /\ t.artist = Groups(line, TRUE).artist
                          /\ t.title = Groups(line, TRUE).title
                          /\ t.file_path = Groups(line, TRUE).file_path
                     ELSE /\ Matches(line, FALSE)
                          /\ t.duration = Groups(line, FALSE).duration
                          /\ t.artist = Groups(line, FALSE).artist
                          /\ t.title = Groups(line, FALSE).title
        /\ \A c \in 1..Len(chunks) :
              (\A k \in 1..Len(plog) : plog[k] # c)
                  => \/ Contains(chunks[c], EXTM3U)
                     \/ ~Matches(chunks[c], TRUE) /\ ~Matches(chunks[c], FALSE)
        /\ presult = IF ptracks = <<>> THEN None ELSE [tag |-> "list", value |-> ptracks]

\* header, an entry with a file path, an entry without: two tracks, the first
\* with file_path, the second without
C8_Witness ==
    /\ ppc = "done"
    /\ Len(chunks) = 3
    /\ chunks[1] = EXTM3U
    /\ presult.tag = "list"
    /\ Len(presult.value) = 2
    /\ presult.value[1].duration = <<"4", "1">>
    /\ presult.value[1].file_path = <<"p">>
    /\ "file_path" \notin DOMAIN presult.value[2]

====
